---- MODULE Spec2Model ----
(***************************************************************************)
(* A model of unlike.py: FolderCrawler (directory walk, filter chain,      *)
(* make_map), filter_out_ignored_files (the ignore-list predicate),        *)
(* FolderMerger.merge (reconciliation and report) and the driver main.     *)
(*                                                                         *)
(* Strings are sequences of one-character strings, so that os.path.join,   *)
(* os.path.relpath, str.lower and re.search are computed character by      *)
(* character as the library computes them.                                 *)
(*                                                                         *)
(* Spec        one run of main (lines 203-218)                             *)
(* CrawlerSpec a FolderCrawler with any filter chain, make_map and dump    *)
(* MergerSpec  a FolderMerger called on two crawlers in either order       *)
(***************************************************************************)
EXTENDS Naturals, Sequences, FiniteSets

VARIABLES
    fs,          \* the file system: each existing root folder named on the command
                 \* line -> the set of files (subdir, name) under it
    changes,     \* number of file-system changes made by other programs so far
    args,        \* the parsed command line: left, right, ignore_list
    ignore_fn,   \* main's ignore_fn
    left,        \* main's fs_left  (a FolderCrawler)
    right,       \* main's fs_right (a FolderCrawler)
    res,         \* locals and printed output of the last merge call
    hist,        \* the buckets of the last merge call made in each order
    pc           \* position in main

vars == <<fs, changes, args, ignore_fn, left, right, res, hist, pc>>

----------------------------------------------------------------------------
(* Bounds *)

MaxFsChanges == 1
MaxChain == 2

----------------------------------------------------------------------------
(* Python values *)

None == [kind |-> "None"]

\* callable(method), line 113
callable(method) == method.kind = "function"

----------------------------------------------------------------------------
(* Characters and strings *)

\* ord(c) for the characters of the model's alphabet
Ord(c) ==
    CASE c = "." -> 46
      [] c = "/" -> 47
      [] c = "B" -> 66
      [] c = "a" -> 97
      [] c = "b" -> 98
      [] c = "n" -> 110
      [] c = "p" -> 112
      [] c = "q" -> 113
      [] c = "w" -> 119
      [] c = "z" -> 122
      [] OTHER -> 0

\* str.lower on one character
LowerChar(c) == IF c = "B" THEN "b" ELSE c

\* str.lower
lower(s) == [i \in 1..Len(s) |-> LowerChar(s[i])]

\* s1 < s2 in Python's string order (lexicographic by code point)
RECURSIVE StrLess(_, _)
StrLess(s1, s2) ==
    IF s2 = <<>> THEN FALSE
    ELSE IF s1 = <<>> THEN TRUE
    ELSE IF Ord(s1[1]) # Ord(s2[1]) THEN Ord(s1[1]) < Ord(s2[1])
    ELSE StrLess(Tail(s1), Tail(s2))

\* s.split('/')
RECURSIVE split(_)
split(s) ==
    IF \A i \in 1..Len(s) : s[i] # "/" THEN <<s>>
    ELSE LET k == CHOOSE i \in 1..Len(s) : s[i] = "/" /\ \A j \in 1..(i-1) : s[j] # "/"
         IN <<SubSeq(s, 1, k-1)>> \o split(SubSeq(s, k+1, Len(s)))

\* os.path.join(a, b) (posixpath)
join(a, b) ==
    IF b # <<>> /\ b[1] = "/" THEN b
    ELSE IF a = <<>> \/ a[Len(a)] = "/" THEN a \o b
    ELSE a \o <<"/">> \o b

\* os.path.join(*parts)
RECURSIVE joinAll(_)
joinAll(parts) ==
    IF Len(parts) = 1 THEN parts[1]
    ELSE join(joinAll(SubSeq(parts, 1, Len(parts)-1)), parts[Len(parts)])

\* the process's working directory, os.getcwd()
Cwd == <<"/", "w">>

\* the component list of os.path.normpath, for an absolute path: empty and "."
\* components dropped, ".." removing the component before it
RECURSIVE normComps(_, _)
normComps(comps, acc) ==
    IF comps = <<>> THEN acc
    ELSE LET c == Head(comps) IN
         IF c = <<>> \/ c = <<".">> THEN normComps(Tail(comps), acc)
         ELSE IF c = <<".", ".">>
              THEN normComps(Tail(comps),
                             IF acc = <<>> THEN acc ELSE SubSeq(acc, 1, Len(acc)-1))
              ELSE normComps(Tail(comps), Append(acc, c))

\* [x for x in os.path.abspath(p).split('/') if x]
absComps(p) == normComps(split(join(Cwd, p)), <<>>)

\* len(os.path.commonprefix([l1, l2])) on component lists
RECURSIVE commonLen(_, _)
commonLen(l1, l2) ==
    IF l1 = <<>> \/ l2 = <<>> \/ Head(l1) # Head(l2) THEN 0
    ELSE 1 + commonLen(Tail(l1), Tail(l2))

\* [pardir] * (len(start_list) - i) + path_list[i:]
relList(start_list, path_list, i) ==
    [k \in 1..(Len(start_list) - i) |-> <<".", ".">>]
    \o SubSeq(path_list, i+1, Len(path_list))

\* curdir for an empty rel_list, else join(*rel_list)
relJoin(rel_list) == IF rel_list = <<>> THEN <<".">> ELSE joinAll(rel_list)

\* the body of relpath on the two component lists
relFrom(start_list, path_list) ==
    relJoin(relList(start_list, path_list, commonLen(start_list, path_list)))

\* os.path.relpath(path, start=start) (posixpath)
relpath(path, start) == relFrom(absComps(start), absComps(path))

----------------------------------------------------------------------------
(* re.search, for patterns made of literal characters, '.', '\c', a       *)
(* leading '^' and a trailing '$'                                          *)

\* does pattern p match s starting at position i
RECURSIVE matchHere(_, _, _)
matchHere(p, s, i) ==
    IF p = <<>> THEN TRUE
    ELSE IF p = <<"$">> THEN i = Len(s) + 1
    ELSE IF p[1] = "\\" /\ Len(p) >= 2
         THEN i <= Len(s) /\ s[i] = p[2] /\ matchHere(SubSeq(p, 3, Len(p)), s, i+1)
    ELSE IF p[1] = "."
         THEN i <= Len(s) /\ matchHere(Tail(p), s, i+1)
    ELSE i <= Len(s) /\ s[i] = p[1] /\ matchHere(Tail(p), s, i+1)

\* re.search(pat, s) is not None
re_search(pat, s) ==
    IF pat # <<>> /\ pat[1] = "^"
    THEN matchHere(Tail(pat), s, 1)
    ELSE \E i \in 1..(Len(s) + 1) : matchHere(pat, s, i)

----------------------------------------------------------------------------
(* The file system *)

\* root folders that exist, and one name that is no folder
RootP == <<"p">>
RootQ == <<"q">>
RootZ == <<"z">>
Roots == {RootP, RootQ}
RootArgs == {RootP, RootQ, RootZ}

\* the files a tree may hold: a/, n/a, n/B below the root
F1 == [dir |-> <<>>,    name |-> <<"a">>]
F2 == [dir |-> <<"n">>, name |-> <<"a">>]
F3 == [dir |-> <<"n">>, name |-> <<"B">>]
Listing == <<F1, F2, F3>>
Universe == {Listing[i] : i \in 1..Len(Listing)}

\* the (path, fname) pairs of the files present, in listing order
walkOf(root, present) ==
    [i \in 1..Len(present) |->
       [path  |-> IF present[i].dir = <<>> THEN root ELSE join(root, present[i].dir),
        fname |-> present[i].name]]

\* os.walk(root), flattened to the (path, fname) pairs of lines 140-141, top-down.
\* A root that cannot be listed yields nothing: os.walk ignores the scandir error.
walk(root, tree) ==
    IF root \notin DOMAIN tree THEN <<>>
    ELSE walkOf(root, SelectSeq(Listing, LAMBDA f : f \in tree[root]))

\* os.stat(p): what identifies the file
stat(p) == [st_ino |-> p]

\* FileInfo(path, file, info), line 11
FileInfo(path, file, info) == [path |-> path, file |-> file, info |-> info]

----------------------------------------------------------------------------
(* filter_out_ignored_files, lines 167-179 *)

IgnoreLists ==
    { <<>>,
      << <<"n">> >>,
      << <<"^", "a">> >>,
      << <<"\\", ".">> >>,
      << <<"a", "$">>, <<"p">>, <<"B">> >> }

\* the closure object
Closure(ignore_list) ==
    [kind |-> "function", name |-> "_filter_out", ignore_list |-> ignore_list]

\* _filter_out searching the bare filename instead of the joined path
RECURSIVE _filter_out_nameOnly(_, _, _)
_filter_out_nameOnly(ignore_list, path, filename) ==
    IF ignore_list = <<>> THEN TRUE
    ELSE IF re_search(Head(ignore_list), filename) THEN FALSE
    ELSE _filter_out_nameOnly(Tail(ignore_list), path, filename)

\* _filter_out(path, filename) closed over ignore_list, lines 169-174
RECURSIVE _filter_out(_, _, _)
_filter_out(ignore_list, path, filename) ==
    IF ignore_list = <<>> THEN TRUE
    ELSE IF re_search(Head(ignore_list), join(path, filename)) THEN FALSE
    ELSE _filter_out(Tail(ignore_list), path, filename)

\* filter_out_ignored_files without the test of line 176
filter_out_always(ignore_list) == Closure(ignore_list)

\* lines 176-179
filter_out_ignored_files(ignore_list) ==
    IF Len(ignore_list) > 0 THEN Closure(ignore_list) ELSE None

\* make_filter_of_ignored_files(args), lines 182-187: the lines of the file
make_filter_of_ignored_files(a) == filter_out_ignored_files(a.ignore_list)

\* f(path, filename) for a method of the chain
call(f, path, filename) == _filter_out(f.ignore_list, path, filename)

----------------------------------------------------------------------------
(* FolderCrawler, lines 97-164 *)

\* FolderCrawler(root), lines 103-107
FolderCrawler(root) == [root |-> root, filters |-> <<>>, file_map |-> <<>>]

\* add_filter, lines 109-115
add_filter(self, method) ==
    IF callable(method)
    THEN [self EXCEPT !.filters = Append(self.filters, method)]
    ELSE self

\* _filter returning what the first predicate of the chain returns
filterChain_firstOnly(filters, root, path, filename) ==
    IF filters = <<>> THEN TRUE
    ELSE call(Head(filters), relpath(path, root), filename)

\* _filter, lines 129-135
RECURSIVE filterChain(_, _, _, _)
filterChain(filters, root, path, filename) ==
    IF filters = <<>> THEN TRUE
    ELSE IF ~call(Head(filters), relpath(path, root), filename) THEN FALSE
    ELSE filterChain(Tail(filters), root, path, filename)

\* self._filter(path, filename)
_filter(self, path, filename) == filterChain(self.filters, self.root, path, filename)

\* iter_files, lines 137-143
iter_files(self, tree) ==
    SelectSeq(walk(self.root, tree), LAMBDA e : _filter(self, e.path, e.fname))

\* lines 152-153 for each (path, file) of it
statEach(it) ==
    [i \in 1..Len(it) |->
       FileInfo(it[i].path, it[i].fname, stat(join(it[i].path, it[i].fname)))]

\* stat_files, lines 148-153, when every os.stat succeeds
stat_files(self, tree) == statEach(iter_files(self, tree))

\* the dict comprehension of lines 161-164 over the FileInfos sf with their keys
\* ks: key -> the last FileInfo with that key
dictOf(ks, sf) ==
    [k \in {ks[i] : i \in 1..Len(ks)} |->
       sf[CHOOSE i \in 1..Len(sf) : ks[i] = k /\ \A j \in (i+1)..Len(sf) : ks[j] # k]]

\* the keys of line 162
mapKeys(root, sf) ==
    [i \in 1..Len(sf) |-> relpath(join(sf[i].path, sf[i].file), root)]

\* lines 161-164 over the FileInfos sf
mapOf(root, sf) == dictOf(mapKeys(root, sf), sf)

\* make_map, lines 160-164
make_map(self, tree) ==
    [self EXCEPT !.file_map = mapOf(self.root, stat_files(self, tree))]

----------------------------------------------------------------------------
(* FolderMerger.merge, lines 28-94 *)

Flags == [show_left_only : BOOLEAN, show_right_only : BOOLEAN,
          show_both : BOOLEAN, summarize : BOOLEAN]

\* _get_canonical_name keeping the file name only
canonical_basename(fi, base) == fi.file

\* _get_canonical_name, lines 24-26
_get_canonical_name(fi, base) == relpath(join(fi.path, fi.file), base)

\* file_map[canonical_name][i] = fi, line 34.  The defaultdict is a sequence of
\* entries in insertion order, each with its key and its two slots t.
RECURSIVE setSlot(_, _, _, _)
setSlot(file_map, canonical_name, i, fi) ==
    IF file_map = <<>>
    THEN << [key |-> canonical_name, t |-> [[j \in 0..1 |-> None] EXCEPT ![i] = fi]] >>
    ELSE IF Head(file_map).key = canonical_name
    THEN << [Head(file_map) EXCEPT !.t[i] = fi] >> \o Tail(file_map)
    ELSE << Head(file_map) >> \o setSlot(Tail(file_map), canonical_name, i, fi)

\* the inner loop, lines 32-34, over the FileInfos one crawler yields
RECURSIVE crawlInto(_, _, _, _)
crawlInto(file_map, files, i, base) ==
    IF files = <<>> THEN file_map
    ELSE crawlInto(setSlot(file_map, _get_canonical_name(Head(files), base), i, Head(files)),
                   Tail(files), i, base)

\* lines 29-34
buildFileMap(l, r, tree) ==
    crawlInto(crawlInto(<<>>, stat_files(l, tree), 0, l.root),
              stat_files(r, tree), 1, r.root)

EmptyBuckets == [left_only |-> <<>>, right_only |-> <<>>, both |-> <<>>]

\* lines 36-46 without the else branch: a file of both trees counted as left-only
RECURSIVE classify_noBoth(_, _)
classify_noBoth(file_map, acc) ==
    IF file_map = <<>> THEN acc
    ELSE LET t == Head(file_map).t IN
         classify_noBoth(Tail(file_map),
            IF t[0] = None
            THEN [acc EXCEPT !.right_only = Append(@, t[1])]
            ELSE [acc EXCEPT !.left_only = Append(@, t[0])])

\* lines 36-46: the three buckets
RECURSIVE classify(_, _)
classify(file_map, acc) ==
    IF file_map = <<>> THEN acc
    ELSE LET t == Head(file_map).t IN
         classify(Tail(file_map),
            IF t[0] = None
            THEN [acc EXCEPT !.right_only = Append(@, t[1])]
            ELSE IF t[1] = None
            THEN [acc EXCEPT !.left_only = Append(@, t[0])]
            ELSE [acc EXCEPT !.both = Append(@, join(t[1].path, t[1].file))])

\* sorted(seq, key=...): a stable sort of items [key, val] on their keys
RECURSIVE insertSorted(_, _)
insertSorted(sortedSeq, x) ==
    IF sortedSeq = <<>> THEN <<x>>
    ELSE IF StrLess(x.key, Head(sortedSeq).key) THEN <<x>> \o sortedSeq
    ELSE <<Head(sortedSeq)>> \o insertSorted(Tail(sortedSeq), x)

RECURSIVE sortItems(_)
sortItems(items) ==
    IF items = <<>> THEN <<>>
    ELSE insertSorted(sortItems(SubSeq(items, 1, Len(items)-1)), items[Len(items)])

\* the elements of a sorted list of items
vals(items) == [i \in 1..Len(items) |-> items[i].val]

\* sorted(bucket, key=...), lines 52 and 66
sortedFiles(bucket) ==
    vals(sortItems([i \in 1..Len(bucket) |->
           [key |-> lower(join(bucket[i].path, bucket[i].file)), val |-> bucket[i]]]))

\* sorted(folders.keys(), key=lambda k: k.lower())
sortedFolders(ks) ==
    vals(sortItems([i \in 1..Len(ks) |-> [key |-> lower(ks[i]), val |-> ks[i]]]))

\* the keys of folders in insertion order: the distinct file.path of the files
RECURSIVE folderKeys(_, _)
folderKeys(files, acc) ==
    IF files = <<>> THEN acc
    ELSE folderKeys(Tail(files),
                    IF \E k \in 1..Len(acc) : acc[k] = Head(files).path
                    THEN acc ELSE Append(acc, Head(files).path))

\* what print writes
BlankLine == [kind |-> "blank"]
HeaderLine(text) == [kind |-> "header", text |-> text]
FileLine(p) == [kind |-> "file", path |-> p]
FolderLine(folder, count) ==
    [kind |-> "folder", folder |-> folder, count |-> count, plural |-> count > 1]
CountLine(label, n) == [kind |-> "count", label |-> label, n |-> n]

\* the body of one "if show_..." block after its header, lines 51-60 and 65-74,
\* for a bucket of FileInfo
\* lines 55-56: one line per file
fileLines(files) ==
    [i \in 1..Len(files) |-> FileLine(join(files[i].path, files[i].file))]

\* lines 57-60: one line per folder ks[i], with the number of files in it
folderLines(files, ks) ==
    [i \in 1..Len(ks) |->
       FolderLine(ks[i], Cardinality({j \in 1..Len(files) : files[j].path = ks[i]}))]

\* lines 52-60 on the sorted files
listingOf(files, summarize) ==
    IF summarize THEN folderLines(files, sortedFolders(folderKeys(files, <<>>)))
    ELSE fileLines(files)

listing(bucket, summarize) == listingOf(sortedFiles(bucket), summarize)

\* lines 48-60
reportLeft(flags, b) ==
    IF flags.show_left_only
    THEN <<BlankLine, HeaderLine("Files only in left folder:")>>
         \o listing(b.left_only, flags.summarize)
    ELSE <<>>

\* lines 62-74
reportRight(flags, b) ==
    IF flags.show_right_only
    THEN <<BlankLine, HeaderLine("Files only in right folder:")>>
         \o listing(b.right_only, flags.summarize)
    ELSE <<>>

\* lines 76-78
reportBothHeader(flags) ==
    IF flags.show_both
    THEN <<BlankLine, HeaderLine("Files in both folders:")>>
    ELSE <<>>

\* lines 90-94
reportCounts(b, file_map) ==
    << CountLine("Left only", Len(b.left_only)),
       CountLine("Right only", Len(b.right_only)),
       CountLine("In both", Len(b.both)),
       CountLine("Total (by len)", Len(file_map)),
       CountLine("Total (by sum)",
                 Len(b.left_only) + Len(b.right_only) + Len(b.both)) >>

\* lines 79-94, after the output out of lines 48-78.  The entries of both are
\* str (line 46): the key function of line 80 reads li.path of the first of them
\* and raises AttributeError.
reportRest(flags, b, file_map, out) ==
    IF flags.show_both /\ b.both # <<>>
    THEN [err |-> "AttributeError", out |-> out]
    ELSE [err |-> "", out |-> out \o reportCounts(b, file_map)]

\* lines 48-94
report(flags, b, file_map) ==
    reportRest(flags, b, file_map,
               reportLeft(flags, b) \o reportRight(flags, b) \o reportBothHeader(flags))

\* before any call of merge
NoRes == [stage |-> "none", err |-> "", file_map |-> <<>>,
          left_only |-> <<>>, right_only |-> <<>>, both |-> <<>>, out |-> <<>>]

\* lines 29-46: the locals file_map, left_only, right_only and both
\* the locals of merge after line 46
locals(file_map, b) ==
    [file_map |-> file_map,
     left_only |-> b.left_only, right_only |-> b.right_only, both |-> b.both]

\* lines 36-46 on file_map
classified(file_map) == locals(file_map, classify(file_map, EmptyBuckets))

reconcile(l, r, tree) == classified(buildFileMap(l, r, tree))

\* the locals rec of lines 29-46 with the outcome rp of lines 48-94
outcome(rec, rp) ==
    [stage |-> IF rp.err = "" THEN "returned" ELSE "report",
     err |-> rp.err, file_map |-> rec.file_map,
     left_only |-> rec.left_only, right_only |-> rec.right_only,
     both |-> rec.both, out |-> rp.out]

\* lines 48-94 on the locals rec
reported(rec, flags) == outcome(rec, report(flags, rec, rec.file_map))

\* merge(l, r, flags): its locals and output when it returns or raises.
\* statFails: an os.stat of line 152 raises (file removed mid-walk, permission
\* denied); it can only do so if some file gets as far as os.stat.
merge(l, r, flags, tree, statFails) ==
    IF statFails /\ (iter_files(l, tree) # <<>> \/ iter_files(r, tree) # <<>>)
    THEN [NoRes EXCEPT !.stage = "crawl", !.err = "OSError"]
    ELSE reported(reconcile(l, r, tree), flags)

----------------------------------------------------------------------------
(* The buckets of the merge calls so far, by the order of the two crawlers *)

NoBuckets == [set |-> FALSE, left_only |-> <<>>, right_only |-> <<>>, both |-> <<>>]
NoHist == [o \in {"LR", "RL"} |-> NoBuckets]

\* the buckets a merge call leaves behind, once lines 36-46 have run
record(h, order, r) ==
    IF r.stage = "crawl" THEN h
    ELSE [h EXCEPT ![order] = [set |-> TRUE, left_only |-> r.left_only,
                               right_only |-> r.right_only, both |-> r.both]]

----------------------------------------------------------------------------
(* main, lines 203-218 *)

\* line 213 with the filter added to the right crawler
main_213_right(l, r, fn) == [left |-> l, right |-> add_filter(r, fn)]

\* line 213: the second add_filter call
main_213(l, r, fn) == [left |-> add_filter(l, fn), right |-> r]

\* The left folder is p or the missing z; the right folder is the same folder,
\* another folder q, or z.
Init ==
    /\ args \in [left : {RootP, RootZ}, right : RootArgs, ignore_list : IgnoreLists]
    /\ fs \in [{args.left, args.right} \cap Roots -> SUBSET Universe]
    /\ changes = 0
    /\ ignore_fn = None
    /\ left = None
    /\ right = None
    /\ res = NoRes
    /\ hist = NoHist
    /\ pc = "L206"

\* line 206
MakeFilter ==
    /\ pc = "L206"
    /\ ignore_fn' = make_filter_of_ignored_files(args)
    /\ pc' = "L208"
    /\ UNCHANGED <<fs, changes, args, left, right, res, hist>>

\* line 208
NewLeft ==
    /\ pc = "L208"
    /\ left' = FolderCrawler(args.left)
    /\ pc' = "L209"
    /\ UNCHANGED <<fs, changes, args, ignore_fn, right, res, hist>>

\* line 209
AddFilterLeft ==
    /\ pc = "L209"
    /\ left' = add_filter(left, ignore_fn)
    /\ pc' = "L210"
    /\ UNCHANGED <<fs, changes, args, ignore_fn, right, res, hist>>

\* line 210: make_map, or the OSError of an os.stat that fails
MakeMapLeft ==
    /\ pc = "L210"
    /\ \E statFails \in BOOLEAN :
         IF statFails /\ iter_files(left, fs) # <<>>
         THEN left' = left /\ pc' = "error"
         ELSE left' = make_map(left, fs) /\ pc' = "L212"
    /\ UNCHANGED <<fs, changes, args, ignore_fn, right, res, hist>>

\* line 212
NewRight ==
    /\ pc = "L212"
    /\ right' = FolderCrawler(args.right)
    /\ pc' = "L213"
    /\ UNCHANGED <<fs, changes, args, ignore_fn, left, res, hist>>

\* line 213
AddFilterAgain ==
    /\ pc = "L213"
    /\ left' = main_213(left, right, ignore_fn).left
    /\ right' = main_213(left, right, ignore_fn).right
    /\ pc' = "L214"
    /\ UNCHANGED <<fs, changes, args, ignore_fn, res, hist>>

\* line 214
MakeMapRight ==
    /\ pc = "L214"
    /\ \E statFails \in BOOLEAN :
         IF statFails /\ iter_files(right, fs) # <<>>
         THEN right' = right /\ pc' = "error"
         ELSE right' = make_map(right, fs) /\ pc' = "L216"
    /\ UNCHANGED <<fs, changes, args, ignore_fn, left, res, hist>>

\* lines 216-218
Merge ==
    /\ pc = "L216"
    /\ \E flags \in Flags, statFails \in BOOLEAN :
         /\ res' = merge(left, right, flags, fs, statFails)
         /\ hist' = record(hist, "LR", res')
         /\ pc' = IF res'.err = "" THEN "done" ELSE "error"
    /\ UNCHANGED <<fs, changes, args, ignore_fn, left, right>>

\* another program adds or removes a file of a tree, after both make_map calls
\* and before merge
FsChange ==
    /\ pc = "L216"
    /\ changes < MaxFsChanges
    /\ \E root \in DOMAIN fs, f \in Universe :
         fs' = [fs EXCEPT ![root] = IF f \in @ THEN @ \ {f} ELSE @ \cup {f}]
    /\ changes' = changes + 1
    /\ UNCHANGED <<args, ignore_fn, left, right, res, hist, pc>>

Next ==
    \/ MakeFilter
    \/ NewLeft
    \/ AddFilterLeft
    \/ MakeMapLeft
    \/ NewRight
    \/ AddFilterAgain
    \/ MakeMapRight
    \/ Merge
    \/ FsChange

Spec == Init /\ [][Next]_vars

----------------------------------------------------------------------------
(* A FolderCrawler used on its own: filters are attached, then the tree is  *)
(* traversed by make_map and dump                                           *)

CrawlerMethods == {Closure(il) : il \in IgnoreLists \ {<<>>}} \cup {None}

\* dump, lines 155-157: one line per file, until an os.stat raises.
\* failAt = 0: no os.stat fails; failAt = k: the os.stat of the k-th file does.
\* the lines printed for the FileInfos sf
dumped(sf, failAt) ==
    [NoRes EXCEPT !.stage = "dump",
                  !.err = IF failAt = 0 THEN "" ELSE "OSError",
                  !.out = fileLines(SubSeq(sf, 1, IF failAt = 0 THEN Len(sf)
                                                  ELSE failAt - 1))]

\* dump, lines 155-157
dump(self, tree, failAt) == dumped(stat_files(self, tree), failAt)

CrawlerInit ==
    /\ args \in [left : RootArgs, right : {<<>>}, ignore_list : {<<>>}]
    /\ fs \in [{args.left} \cap Roots -> SUBSET Universe]
    /\ changes = 0
    /\ ignore_fn = None
    /\ left = FolderCrawler(args.left)
    /\ right = None
    /\ res = NoRes
    /\ hist = NoHist
    /\ pc = "setup"

\* crawler.add_filter(method)
CrawlerAddFilter ==
    /\ pc = "setup"
    /\ res = NoRes
    /\ Len(left.filters) < MaxChain
    /\ \E method \in CrawlerMethods : left' = add_filter(left, method)
    /\ UNCHANGED <<fs, changes, args, ignore_fn, right, res, hist, pc>>

\* crawler.make_map()
CrawlerMakeMap ==
    /\ pc = "setup"
    /\ \E statFails \in BOOLEAN :
         IF statFails /\ iter_files(left, fs) # <<>>
         THEN left' = left /\ pc' = "error"
         ELSE left' = make_map(left, fs) /\ pc' = "mapped"
    /\ UNCHANGED <<fs, changes, args, ignore_fn, right, res, hist>>

\* crawler.dump()
CrawlerDump ==
    /\ pc \in {"setup", "mapped"}
    /\ res = NoRes
    /\ \E failAt \in 0..Len(iter_files(left, fs)) : res' = dump(left, fs, failAt)
    /\ UNCHANGED <<fs, changes, args, ignore_fn, left, right, hist, pc>>

CrawlerNext ==
    \/ CrawlerAddFilter
    \/ CrawlerMakeMap
    \/ CrawlerDump

CrawlerSpec == CrawlerInit /\ [][CrawlerNext]_vars

----------------------------------------------------------------------------
(* A FolderMerger used on its own: two crawlers with their filter chains,   *)
(* merged in either order                                                   *)

MergerChains == { <<>>, << Closure(<< <<"n">> >>) >> }

\* the display options the calls are made with
MergerFlags ==
    { [show_left_only |-> FALSE, show_right_only |-> FALSE,
       show_both |-> FALSE, summarize |-> FALSE],
      [show_left_only |-> TRUE, show_right_only |-> TRUE,
       show_both |-> TRUE, summarize |-> FALSE],
      [show_left_only |-> TRUE, show_right_only |-> TRUE,
       show_both |-> FALSE, summarize |-> TRUE] }

MergerInit ==
    /\ args \in [left : {RootP}, right : Roots, ignore_list : {<<>>}]
    /\ fs \in [{args.left, args.right} -> SUBSET Universe]
    /\ changes = 0
    /\ ignore_fn = None
    /\ \E c \in MergerChains : left = [FolderCrawler(args.left) EXCEPT !.filters = c]
    /\ \E c \in MergerChains : right = [FolderCrawler(args.right) EXCEPT !.filters = c]
    /\ res = NoRes
    /\ hist = NoHist
    /\ pc = "merger"

\* FolderMerger(left, right).merge(...), until one call has got past the crawl
MergeLeftRight ==
    /\ pc = "merger"
    /\ ~hist["LR"].set
    /\ \E flags \in MergerFlags, statFails \in BOOLEAN :
         /\ res' = merge(left, right, flags, fs, statFails)
         /\ hist' = record(hist, "LR", res')
    /\ UNCHANGED <<fs, changes, args, ignore_fn, left, right, pc>>

\* FolderMerger(right, left).merge(...), until one call has got past the crawl
MergeRightLeft ==
    /\ pc = "merger"
    /\ ~hist["RL"].set
    /\ \E flags \in MergerFlags, statFails \in BOOLEAN :
         /\ res' = merge(right, left, flags, fs, statFails)
         /\ hist' = record(hist, "RL", res')
    /\ UNCHANGED <<fs, changes, args, ignore_fn, left, right, pc>>

MergerNext ==
    \/ MergeLeftRight
    \/ MergeRightLeft

MergerSpec == MergerInit /\ [][MergerNext]_vars

----------------------------------------------------------------------------
(* Vocabulary of the properties.  These are stated on the trees themselves, *)
(* not through the operators above.                                         *)

\* the files under a root; none when the root is no folder
TreeOf(root) == IF root \in DOMAIN fs THEN fs[root] ELSE {}

\* a file's directory relative to its root, and its canonical path
RelDir(f) == IF f.dir = <<>> THEN <<".">> ELSE f.dir
CanonOf(f) == IF f.dir = <<>> THEN f.name ELSE f.dir \o <<"/">> \o f.name

\* every predicate of the crawler's chain returns true for the file
Passes(c, f) == \A i \in 1..Len(c.filters) : call(c.filters[i], RelDir(f), f.name)

\* the canonical paths of the files a crawler has to yield
KeysOf(c) == {CanonOf(f) : f \in {g \in TreeOf(c.root) : Passes(c, g)}}

\* the path p, which lies under root, relative to root
RelTo(p, root) == SubSeq(p, Len(root) + 2, Len(p))

\* canonical paths of a bucket of FileInfo, and of a bucket of paths
EntryKeys(bucket, root) ==
    {RelTo(bucket[i].path \o <<"/">> \o bucket[i].file, root) : i \in 1..Len(bucket)}
PathKeys(bucket, root) == {RelTo(bucket[i], root) : i \in 1..Len(bucket)}

\* lines 36-46 of the last merge call have run
Classified == res.stage \in {"returned", "report"}

\* a pattern as a sequence of atoms (a character, or any character), without
\* its anchors
RECURSIVE Atoms(_)
Atoms(p) ==
    IF p = <<>> \/ p = <<"$">> THEN <<>>
    ELSE IF p[1] = "^" THEN Atoms(Tail(p))
    ELSE IF p[1] = "\\" THEN <<[any |-> FALSE, ch |-> p[2]]>> \o Atoms(SubSeq(p, 3, Len(p)))
    ELSE <<[any |-> p[1] = ".", ch |-> p[1]]>> \o Atoms(Tail(p))

\* the pattern matches somewhere in s
MatchesSomewhere(pat, s) ==
    LET a == Atoms(pat) IN
    \E i \in 1..(Len(s) + 1) :
       /\ i + Len(a) - 1 <= Len(s)
       /\ \A k \in 1..Len(a) : a[k].any \/ a[k].ch = s[i + k - 1]
       /\ (pat[1] = "^" => i = 1)
       /\ (pat[Len(pat)] = "$" => i + Len(a) - 1 = Len(s))

\* some pattern of the ignore list matches the file's directory joined with its name
Ignored(ignore_list, dir, name) ==
    \E i \in 1..Len(ignore_list) :
       MatchesSomewhere(ignore_list[i], dir \o <<"/">> \o name)

----------------------------------------------------------------------------
(* Properties *)

\* C1: once merge has classified, the canonical paths of left_only are
\* keys(L) \ keys(R), those of right_only are keys(R) \ keys(L) and those of both
\* are keys(L) \cap keys(R): every canonical path is in exactly one bucket, once.
C1_Buckets ==
    Classified =>
      LET lo == EntryKeys(res.left_only, left.root)
          ro == EntryKeys(res.right_only, right.root)
          bo == PathKeys(res.both, right.root)
      IN /\ lo = KeysOf(left) \ KeysOf(right)
         /\ ro = KeysOf(right) \ KeysOf(left)
         /\ bo = KeysOf(left) \cap KeysOf(right)
         /\ lo \cap ro = {} /\ lo \cap bo = {} /\ ro \cap bo = {}
         /\ Cardinality(lo) = Len(res.left_only)
         /\ Cardinality(ro) = Len(res.right_only)
         /\ Cardinality(bo) = Len(res.both)

\* a merge whose three buckets are all non-empty
C1_Witness ==
    Classified /\ res.left_only # <<>> /\ res.right_only # <<>> /\ res.both # <<>>

\* C2: the number of keys of file_map equals the sum of the three bucket sizes
\* and the size of the union of the two trees' canonical paths, the two printed
\* totals agree, and no file_map entry has both slots empty.
C2_Totals ==
    Classified =>
      LET sum == Len(res.left_only) + Len(res.right_only) + Len(res.both)
          n   == Len(res.out)
      IN /\ Len(res.file_map) = sum
         /\ sum = Cardinality(KeysOf(left) \cup KeysOf(right))
         /\ \A i \in 1..Len(res.file_map) :
               ~(res.file_map[i].t[0] = None /\ res.file_map[i].t[1] = None)
         /\ \A i, j \in 1..Len(res.file_map) :
               res.file_map[i].key = res.file_map[j].key => i = j
         /\ res.stage = "returned" =>
               /\ res.out[n-1] = CountLine("Total (by len)", sum)
               /\ res.out[n] = CountLine("Total (by sum)", sum)

\* a merge that returned, of trees with a shared file and files of their own,
\* two of them with the same name in different folders
C2_Witness ==
    /\ res.stage = "returned"
    /\ Len(res.file_map) = 3
    /\ res.both # <<>>
    /\ res.left_only # <<>>

\* C3: the left_only bucket of merge(L, R) holds the entries of the right_only
\* bucket of merge(R, L), and the both buckets of the two calls hold the same
\* entries.
C3_Symmetry ==
    (hist["LR"].set /\ hist["RL"].set) =>
      /\ hist["LR"].left_only = hist["RL"].right_only
      /\ hist["LR"].right_only = hist["RL"].left_only
      /\ {hist["LR"].both[i] : i \in 1..Len(hist["LR"].both)}
           = {hist["RL"].both[i] : i \in 1..Len(hist["RL"].both)}

SomeDirs == {<<".">>, <<"n">>, <<"p">>, <<"p", "/", "n">>, <<"B", "/", "a">>}
SomeNames == {<<"a">>, <<"B">>, <<"n">>, <<"a", ".", "B">>}

\* C5: for a non-empty ignore list the predicate returns false exactly when some
\* pattern matches somewhere in directory joined with filename; the map that
\* make_map builds for the left tree holds exactly the files no pattern matches.
C5_IgnoreFilter ==
    (args.ignore_list # <<>> /\ pc # "L206") =>
      /\ callable(ignore_fn)
      /\ \A d \in SomeDirs, n \in SomeNames :
            call(ignore_fn, d, n) = ~Ignored(args.ignore_list, d, n)
      /\ (pc \in {"L212", "L213", "L214"}) =>
            DOMAIN left.file_map =
              {CanonOf(f) : f \in {g \in TreeOf(left.root) :
                                     ~Ignored(args.ignore_list, RelDir(g), g.name)}}

\* the ignore list names the folder n, the tree holds n/a and a, and the map holds
\* only a
C5_Witness ==
    /\ args.ignore_list = << <<"n">> >>
    /\ pc = "L212"
    /\ {F1, F2} \subseteq TreeOf(left.root)
    /\ DOMAIN left.file_map = {<<"a">>}

\* C6: with an empty ignore list there is no predicate, add_filter leaves the
\* chain empty, and the crawler enumerates every file of its tree.
C6_EmptyIgnoreList ==
    args.ignore_list = <<>> =>
      /\ pc # "L206" => ignore_fn = None
      /\ pc \notin {"L206", "L208"} => left.filters = <<>>
      /\ pc \in {"L212", "L213", "L214"} =>
            DOMAIN left.file_map = {CanonOf(f) : f \in TreeOf(left.root)}
      /\ Classified =>
            EntryKeys(res.left_only, left.root) \cup PathKeys(res.both, right.root)
              = {CanonOf(f) : f \in TreeOf(left.root)}

\* an empty ignore list, after add_filter and make_map on a tree with files
C6_Witness ==
    /\ args.ignore_list = <<>>
    /\ pc = "L212"
    /\ Cardinality(DOMAIN left.file_map) = 3

\* C7: a run that ends with an unhandled error has printed nothing.
C7_NoPartialReport == pc = "error" => res.out = <<>>

\* C8: with a root that is no folder, the run never gets as far as computing
\* buckets or reporting counts.
C8_MissingRootFatal ==
    (args.left \notin DOMAIN fs \/ args.right \notin DOMAIN fs) =>
      (res.stage = "none" /\ pc # "done")

\* line 213 has run
After213 == pc \in {"L214", "L216", "done"} \/ (pc = "error" /\ right # None)

\* C9: with a non-empty ignore list the left crawler holds the filter twice and
\* the right crawler's chain is empty; a file some pattern matches is in neither
\* left_only nor both, and is in right_only exactly when the right tree holds it.
C9_LeftOnlyFiltered ==
    (args.ignore_list # <<>> /\ After213) =>
      /\ left.filters = <<ignore_fn, ignore_fn>>
      /\ right.filters = <<>>
      /\ Classified =>
           \A f \in Universe :
              Ignored(args.ignore_list, RelDir(f), f.name) =>
                /\ CanonOf(f) \notin EntryKeys(res.left_only, left.root)
                /\ CanonOf(f) \notin PathKeys(res.both, right.root)
                /\ CanonOf(f) \in EntryKeys(res.right_only, right.root)
                     <=> f \in TreeOf(right.root)

\* a file that a pattern matches and both trees hold is reported as right-only
C9_Witness ==
    /\ args.ignore_list # <<>>
    /\ Classified
    /\ \E f \in TreeOf(left.root) \cap TreeOf(right.root) :
          /\ Ignored(args.ignore_list, RelDir(f), f.name)
          /\ CanonOf(f) \in EntryKeys(res.right_only, right.root)

\* C10: merge classifies from the maps that make_map built: the buckets are
\* the differences and the intersection of the two maps' keys.
C10_MergeUsesMaps ==
    Classified =>
      /\ EntryKeys(res.left_only, left.root)
           = DOMAIN left.file_map \ DOMAIN right.file_map
      /\ EntryKeys(res.right_only, right.root)
           = DOMAIN right.file_map \ DOMAIN left.file_map
      /\ PathKeys(res.both, right.root)
           = DOMAIN left.file_map \cap DOMAIN right.file_map

====
